---- MODULE Spec2Model ----
(***************************************************************************)
(* Model of the booking application generated by                           *)
(* src/carboncare/build_full_sceduler.py: the Slot and Booking tables      *)
(* (booking/models.py), the four views of booking/views.py and the         *)
(* calendar template.  Each view is one atomic action in Spec (one request *)
(* handled to completion before the next); SpecConc splits book_slot into  *)
(* its three database steps so that requests interleave and may be         *)
(* interrupted.                                                            *)
(***************************************************************************)
EXTENDS Integers, Sequences, FiniteSets, TLC

(* ---------------------------------------------------------------- bounds *)
MaxSlots == 2
MaxBookings == 2

(* ---------------------------------------------------------------- inputs *)
Sessions == {"s1", "s2"}
Workers == {"w1", "w2"}
Methods == {"GET", "POST"}
\* a date field as typed into the form, <<y, m, d>> standing for "y-m-d"
DateInputs == {<<2024, 6, 10>>, <<2024, 6, 31>>}
TimeInputs == {"9am", "noon"}
NameInputs == {"Alice", "Bob"}
EmailInputs == {"a@x.com"}
PasswordInputs == {"admin123", "admin", ""}
\* the server clock's (year, month) when GET / is served
Todays == {<<2024, 6>>, <<2024, 7>>}

OWNER_PASSWORD == "admin123"
TimeLabels == <<"9am", "10am", "11am", "12pm", "1pm", "2pm", "3pm", "4pm">>

(* ------------------------------------------------------- request helpers *)
\* QueryDict.get(key): <<>> stands for None, <<v>> for the value v
Get(post, key) == IF key \in DOMAIN post THEN <<post[key]>> ELSE <<>>
\* QueryDict[key] raises MultiValueDictKeyError when the key is absent
HasKey(post, key) == key \in DOMAIN post

Render(template) == [kind |-> "render", what |-> template]
Redirect(url) == [kind |-> "redirect", what |-> url]
Raise(exc) == [kind |-> "error", what |-> exc]

(* ------------------------------------------------------------------ dates *)
IsLeap(y) == (y % 4 = 0 /\ y % 100 # 0) \/ y % 400 = 0
DaysInMonth(y, m) ==
    IF m = 2 THEN (IF IsLeap(y) THEN 29 ELSE 28)
    ELSE IF m \in {4, 6, 9, 11} THEN 30 ELSE 31
\* DateField.to_python on the posted string: a date, or ValidationError
ValidDate(s) == /\ s[2] \in 1..12
                /\ s[3] \in 1..DaysInMonth(s[1], s[2])
ParseDate(s) == [year |-> s[1], month |-> s[2], day |-> s[3]]

VARIABLES
    slots,      \* the Slot table: row i has id i
    bookings,   \* the Booking table: row i has id i
    session,    \* per session, the keys stored in request.session
    req,        \* the request last handled to completion
    resp,       \* the response to it
    w           \* per worker, the book_slot request it is in the middle of

vars == <<slots, bookings, session, req, resp, w>>

(* ----------------------------------------------------------------- models *)
\* faulty variant: the row is inserted with available left false
SlotCreateUnavailable(tbl, date, time, available) ==
    Append(tbl, [date |-> date, time |-> time, available |-> FALSE])

\* Slot.objects.create(date=, time=, available=): INSERT, id = next row
SlotCreate(tbl, date, time, available) ==
    Append(tbl, [date |-> date, time |-> time, available |-> available])

\* faulty variant: a unique constraint on Booking.slot silently drops a second row
BookingCreateUnique(tbl, name, email, slot_id) ==
    IF \E k \in 1..Len(tbl) : tbl[k].slot = slot_id
    THEN tbl
    ELSE Append(tbl, [name |-> name, email |-> email, slot |-> slot_id])

\* faulty variant: Booking(...) is built but never saved
BookingCreateUnsaved(tbl, name, email, slot_id) == tbl

\* Booking.objects.create(name=, email=, slot=): INSERT, no uniqueness on slot
BookingCreate(tbl, name, email, slot_id) ==
    Append(tbl, [name |-> name, email |-> email, slot |-> slot_id])

\* faulty variant: slot.save() is forgotten
SlotSaveForgotten(tbl, slot_id, inst) == tbl

\* faulty variant: the UPDATE has no WHERE clause and flips every row
SlotSaveEveryRow(tbl, slot_id, inst) ==
    [i \in 1..Len(tbl) |-> [tbl[i] EXCEPT !.available = inst.available]]

\* slot.save(): UPDATE of every column of row slot_id from the instance
SlotSave(tbl, slot_id, inst) == [tbl EXCEPT ![slot_id] = inst]

\* faulty variant: the lookup filters on id alone
BookableAnyAvailability(tbl, slot_id) == slot_id \in 1..Len(tbl)

\* get_object_or_404(Slot, id=slot_id, available=True): the rows that match
Bookable(tbl, slot_id) ==
    slot_id \in 1..Len(tbl) /\ tbl[slot_id].available = TRUE

\* faulty variant: the gate admits every session
IsOwnerAnySession(s) == s \in Sessions

\* request.session.get("is_owner")
IsOwner(s) == "is_owner" \in session[s]

Idle == [pc |-> "idle"]

Init ==
    /\ slots = <<>>
    /\ bookings = <<>>
    /\ session = [s \in Sessions |-> {}]
    /\ req = [route |-> "none"]
    /\ resp = Render("none")
    /\ w = [p \in Workers |-> Idle]

(* --------------------------------------------------------------- calendar *)
\* date.weekday(): Monday = 0 ... Sunday = 6
Weekday(y, m, d) ==
    LET t == <<0, 3, 2, 5, 0, 3, 5, 1, 4, 6, 2, 4>>
        yy == IF m < 3 THEN y - 1 ELSE y
        sun0 == (((yy + (yy \div 4)) - (yy \div 100)) + (yy \div 400) + t[m] + d) % 7
    IN (sun0 + 6) % 7

\* calendar.Calendar().itermonthdates(year, month): the month's dates, with the
\* days of the adjacent months that complete its first and last week
itermonthdates(year, month) ==
    LET lead == Weekday(year, month, 1)
        n == DaysInMonth(year, month)
        trail == (7 - ((lead + n) % 7)) % 7
        py == IF month = 1 THEN year - 1 ELSE year
        pm == IF month = 1 THEN 12 ELSE month - 1
        ny == IF month = 12 THEN year + 1 ELSE year
        nm == IF month = 12 THEN 1 ELSE month + 1
        pn == DaysInMonth(py, pm)
    IN [i \in 1..lead |-> [year |-> py, month |-> pm, day |-> (pn - lead) + i]]
       \o [i \in 1..n |-> [year |-> year, month |-> month, day |-> i]]
       \o [i \in 1..trail |-> [year |-> ny, month |-> nm, day |-> i]]

\* Slot.objects.filter(date__month=month): the ids, whatever the year
SlotsOfMonth(tbl, month) == {i \in 1..Len(tbl) : tbl[i].date.month = month}

\* {(s.date, s.time): s.available for s in slots}: a later row overwrites an
\* earlier one with the same key, and the Slot's id is not kept
SlotMap(tbl, month) ==
    LET ids == SlotsOfMonth(tbl, month)
        keys == {<<tbl[i].date, tbl[i].time>> : i \in ids}
        last(k) == CHOOSE i \in ids :
                      /\ <<tbl[i].date, tbl[i].time>> = k
                      /\ \A j \in ids : <<tbl[j].date, tbl[j].time>> = k => j <= i
    IN [k \in keys |-> tbl[last(k)].available]

\* the filters calendar.html applies, and those a template that loads no
\* library can use: the repository defines no get_item
TemplateFilters == {"get_item", "yesno"}
RegisteredFilters == {"yesno", "default", "length", "date", "safe"}
TemplateCompiles == TemplateFilters \subseteq RegisteredFilters

\* slot_map|get_item:(day,time) as the template means it: None when absent
get_item(map, key) == IF key \in DOMAIN map THEN <<map[key]>> ELSE <<>>
\* value|yesno:'1,0'
yesno(v) == IF v = <<TRUE>> THEN 1 ELSE 0

\* one cell of calendar.html: the branches of the template, in its order
CellRender(map, day, time) ==
    LET v == get_item(map, <<day, time>>)
    IN IF v = <<TRUE>>
       THEN [tag |-> "button_disabled", slot_id |-> 0]
       ELSE IF v # <<>>
            THEN [tag |-> "a", slot_id |-> yesno(v)]
            ELSE [tag |-> "none", slot_id |-> 0]

RenderCalendar(days, map, month) ==
    LET shown == {days[i] : i \in {j \in 1..Len(days) : days[j].month = month}}
        labels == {TimeLabels[i] : i \in 1..Len(TimeLabels)}
    IN [c \in shown \X labels |-> CellRender(map, c[1], c[2])]

(* ------------------------------------------------------------------ views *)
\* def index(request)
index(today) ==
    LET year == today[1]
        month == today[2]
        month_days == itermonthdates(year, month)
        slot_map == SlotMap(slots, month)
    IN /\ req' = [route |-> "index", method |-> "GET",
                  year |-> year, month |-> month]
       /\ resp' = IF TemplateCompiles
                  THEN [kind |-> "render", what |-> "calendar.html",
                        cells |-> RenderCalendar(month_days, slot_map, month)]
                  ELSE Raise("TemplateSyntaxError")
       /\ UNCHANGED <<slots, bookings, session, w>>

\* faulty variant: any posted password is accepted
PasswordPresent(post) == Get(post, "password") # <<>>

\* request.POST.get("password") == OWNER_PASSWORD
PasswordMatches(post) == Get(post, "password") = <<OWNER_PASSWORD>>

\* def admin_login(request)
admin_login(s, method, post) ==
    /\ req' = [route |-> "login", method |-> method, session |-> s,
               password |-> Get(post, "password")]
    /\ IF method = "POST" /\ PasswordMatches(post)
       THEN /\ session' = [session EXCEPT ![s] = @ \cup {"is_owner"}]
            /\ resp' = Redirect("/admin_panel/")
       ELSE /\ session' = session
            /\ resp' = Render("login.html")
    /\ UNCHANGED <<slots, bookings, w>>

\* def admin_panel(request)
admin_panel(s, method, post) ==
    /\ req' = [route |-> "admin_panel", method |-> method, session |-> s]
    /\ IF ~IsOwner(s)
       THEN /\ resp' = Redirect("/login/")
            /\ slots' = slots
       ELSE IF method = "POST"
       THEN IF ~HasKey(post, "date") \/ ~HasKey(post, "time")
            THEN /\ resp' = Raise("MultiValueDictKeyError")
                 /\ slots' = slots
            ELSE IF ~ValidDate(post["date"])
            THEN /\ resp' = Raise("ValidationError")
                 /\ slots' = slots
            ELSE /\ Len(slots) < MaxSlots
                 /\ slots' = SlotCreate(slots, ParseDate(post["date"]),
                                        post["time"], TRUE)
                 /\ resp' = Render("admin_panel.html")
       ELSE /\ resp' = Render("admin_panel.html")
            /\ slots' = slots
    /\ UNCHANGED <<bookings, session, w>>

\* faulty variant: the instance's flag is left as it was read
MarkUnavailableNoFlip(inst) == inst

\* slot.available = False, on the fetched instance
MarkUnavailable(inst) == [inst EXCEPT !.available = FALSE]

\* def book_slot(request, slot_id), handled to completion
book_slot(method, slot_id, post) ==
    /\ req' = [route |-> "book", method |-> method, slot_id |-> slot_id,
               name |-> Get(post, "name"), email |-> Get(post, "email")]
    /\ IF ~Bookable(slots, slot_id)
       THEN /\ resp' = Raise("Http404")
            /\ UNCHANGED <<slots, bookings>>
       ELSE IF method = "POST"
       THEN IF ~HasKey(post, "name") \/ ~HasKey(post, "email")
            THEN /\ resp' = Raise("MultiValueDictKeyError")
                 /\ UNCHANGED <<slots, bookings>>
            ELSE /\ Len(bookings) < MaxBookings
                 /\ bookings' = BookingCreate(bookings, post["name"],
                                              post["email"], slot_id)
                 /\ slots' = SlotSave(slots, slot_id,
                                      MarkUnavailable(slots[slot_id]))
                 /\ resp' = Redirect("/")
       ELSE /\ resp' = Render("book.html")
            /\ UNCHANGED <<slots, bookings>>
    /\ UNCHANGED <<session, w>>

(* ------------------------------------------- book_slot POST, step by step *)
\* line 144: the availability-filtered read; the worker keeps the instance
BookFetch(p, slot_id, post) ==
    /\ w[p].pc = "idle"
    /\ w' = [w EXCEPT ![p] =
                IF Bookable(slots, slot_id)
                THEN [pc |-> "fetched", slot_id |-> slot_id,
                      slot |-> slots[slot_id], post |-> post]
                ELSE [pc |-> "Http404"]]
    /\ UNCHANGED <<slots, bookings, session, req, resp>>

\* lines 146-147: the first write, committed on its own
BookCreate(p) ==
    /\ w[p].pc = "fetched"
    /\ IF ~HasKey(w[p].post, "name") \/ ~HasKey(w[p].post, "email")
       THEN /\ w' = [w EXCEPT ![p] = [pc |-> "MultiValueDictKeyError"]]
            /\ bookings' = bookings
       ELSE /\ Len(bookings) < MaxBookings
            /\ bookings' = BookingCreate(bookings, w[p].post["name"],
                                         w[p].post["email"], w[p].slot_id)
            /\ w' = [w EXCEPT ![p] = [pc |-> "created", slot_id |-> @.slot_id,
                                       slot |-> @.slot]]
    /\ UNCHANGED <<slots, session, req, resp>>

\* lines 148-149: the second write, from the instance read at line 144
BookSave(p) ==
    /\ w[p].pc = "created"
    /\ slots' = SlotSave(slots, w[p].slot_id, MarkUnavailable(w[p].slot))
    /\ w' = [w EXCEPT ![p] = [pc |-> "redirected", slot_id |-> @.slot_id]]
    /\ UNCHANGED <<bookings, session, req, resp>>

\* the process dies after line 147 and before line 149
Interrupt(p) ==
    /\ w[p].pc = "created"
    /\ w' = [w EXCEPT ![p] = [pc |-> "interrupted", slot_id |-> @.slot_id]]
    /\ UNCHANGED <<slots, bookings, session, req, resp>>

\* the response is sent (or the process restarted): the worker is free again
Finish(p) ==
    /\ w[p].pc \in {"Http404", "MultiValueDictKeyError", "redirected",
                    "interrupted"}
    /\ w' = [w EXCEPT ![p] = Idle]
    /\ UNCHANGED <<slots, bookings, session, req, resp>>

(* --------------------------------------------------------- specifications *)
LoginPosts == {[password |-> p] : p \in PasswordInputs} \cup {<<>>}
PanelPosts ==
    {[date |-> d, time |-> t] : d \in DateInputs, t \in TimeInputs}
    \cup {[date |-> d] : d \in DateInputs}
    \cup {[time |-> t] : t \in TimeInputs}
BookPosts ==
    {[name |-> n, email |-> e] : n \in NameInputs, e \in EmailInputs}
    \cup {[name |-> n] : n \in NameInputs}
SlotIds == 0..(MaxSlots + 1)
PostOf(method, posts) == IF method = "POST" THEN posts ELSE {<<>>}

Index == \E today \in Todays : index(today)
AdminLogin ==
    \E s \in Sessions, method \in Methods :
        \E post \in PostOf(method, LoginPosts) : admin_login(s, method, post)
AdminPanel ==
    \E s \in Sessions, method \in Methods :
        \E post \in PostOf(method, PanelPosts) : admin_panel(s, method, post)
BookSlot ==
    \E method \in Methods, slot_id \in SlotIds :
        \E post \in PostOf(method, BookPosts) : book_slot(method, slot_id, post)

\* every request handled to completion before the next one starts
Next == Index \/ AdminLogin \/ AdminPanel \/ BookSlot
Spec == Init /\ [][Next]_vars

\* the owner's side of the interleaved runs: one login, then slots added
OwnerSession == "s1"
OwnerLogin ==
    admin_login(OwnerSession, "POST", [password |-> OWNER_PASSWORD])
OwnerAddsSlot ==
    admin_panel(OwnerSession, "POST", [date |-> <<2024, 6, 10>>, time |-> "9am"])

Fetch == \E p \in Workers, slot_id \in SlotIds, post \in BookPosts :
            BookFetch(p, slot_id, post)
Create == \E p \in Workers : BookCreate(p)
Save == \E p \in Workers : BookSave(p)
Crash == \E p \in Workers : Interrupt(p)
Done == \E p \in Workers : Finish(p)

\* book_slot POSTs interleaved step by step, with no locking
NextConc ==
    OwnerLogin \/ OwnerAddsSlot \/ Fetch \/ Create \/ Save \/ Crash \/ Done
SpecConc == Init /\ [][NextConc]_vars
(* ================================================================ claims *)
\* the number of Bookings that reference Slot i
NumBookings(i) == Cardinality({k \in 1..Len(bookings) : bookings[k].slot = i})
SlotExists(i) == i \in 1..Len(slots)

\* C1: over the four routes, a Slot that a Booking references is unavailable
\* after every request, and no request makes an unavailable Slot available
\* again (nor removes a Slot).
C1_BookedStaysUnavailable ==
    [][/\ \A i \in 1..Len(slots) :
              /\ i \in 1..Len(slots')
              /\ slots[i].available = FALSE => slots'[i].available = FALSE
       /\ \A k \in 1..Len(bookings') :
              /\ bookings'[k].slot \in 1..Len(slots')
              /\ slots'[bookings'[k].slot].available = FALSE]_vars

\* a booked, unavailable Slot, seen after the owner has added another Slot
C1_Witness ==
    /\ req.route = "admin_panel" /\ req.method = "POST"
    /\ resp = Render("admin_panel.html")
    /\ \E i \in 1..Len(slots) :
           /\ NumBookings(i) >= 1 /\ slots[i].available = FALSE
           /\ i < Len(slots)

\* the workers that have passed the availability check of line 144 and have
\* executed the create of lines 146-147
PastCreate == {"created", "redirected", "interrupted"}

\* C2: with book_slot POSTs interleaved, two requests that both passed the
\* availability check for one Slot and both ran their create leave two
\* Bookings referencing that Slot: nothing re-checks availability.
C2_BothRequestsBook ==
    \A p \in Workers, q \in Workers :
        (/\ p # q
         /\ w[p].pc \in PastCreate /\ w[q].pc \in PastCreate
         /\ w[p].slot_id = w[q].slot_id)
        => NumBookings(w[p].slot_id) >= 2

\* both requests are between their two writes for the same Slot
C2_Witness ==
    \E i \in 1..Len(slots) :
        /\ \A p \in Workers : w[p].pc = "created" /\ w[p].slot_id = i
        /\ NumBookings(i) = 2
        /\ slots[i].available = TRUE

\* C3: with every request handled to completion, each Slot is referenced by
\* at most one Booking.
C3_AtMostOneBooking ==
    \A i \in 1..Len(slots) : NumBookings(i) <= 1

\* a second attempt on a Slot that has its one Booking was turned away
C3_Witness ==
    /\ req.route = "book" /\ req.method = "GET"
    /\ SlotExists(req.slot_id) /\ NumBookings(req.slot_id) = 1
    /\ resp = Raise("Http404")
    /\ Len(bookings) = MaxBookings

\* C4: a book_slot POST with name and email for an existing available Slot
\* adds exactly one Booking with that name, email and Slot, makes that Slot
\* unavailable, redirects to "/", and changes nothing else.
C4_BookPostEffect ==
    [][(/\ req'.route = "book" /\ req'.method = "POST"
        /\ req'.name # <<>> /\ req'.email # <<>>
        /\ SlotExists(req'.slot_id) /\ slots[req'.slot_id].available = TRUE)
       => /\ bookings' = Append(bookings, [name |-> req'.name[1],
                                           email |-> req'.email[1],
                                           slot |-> req'.slot_id])
          /\ Len(slots') = Len(slots)
          /\ \A i \in 1..Len(slots) :
                 slots'[i] = IF i = req'.slot_id
                             THEN [date |-> slots[i].date, time |-> slots[i].time,
                                   available |-> FALSE]
                             ELSE slots[i]
          /\ resp' = Redirect("/")
          /\ session' = session]_vars

\* a second Booking made while another Slot and an earlier Booking exist
C4_Witness ==
    /\ req.route = "book" /\ req.method = "POST" /\ resp = Redirect("/")
    /\ Len(bookings) = 2 /\ Len(slots) = 2
    /\ bookings[2] = [name |-> req.name[1], email |-> req.email[1],
                      slot |-> req.slot_id]
    /\ bookings[1].slot # req.slot_id

\* C5: a book_slot request, GET or POST, for a Slot that does not exist or is
\* unavailable gets the same Http404 and changes neither table.
C5_NotFound ==
    [][(/\ req'.route = "book"
        /\ ~(SlotExists(req'.slot_id) /\ slots[req'.slot_id].available = TRUE))
       => /\ resp' = Raise("Http404")
          /\ slots' = slots
          /\ bookings' = bookings]_vars

\* a POST against an already booked Slot ended in Http404
C5_Witness ==
    /\ req.route = "book" /\ req.method = "POST"
    /\ req.name # <<>> /\ req.email # <<>>
    /\ SlotExists(req.slot_id) /\ slots[req.slot_id].available = FALSE
    /\ NumBookings(req.slot_id) = 1
    /\ resp = Raise("Http404")

\* C6, as claimed: a book_slot POST interrupted between its two writes leaves
\* its Slot unavailable with no Booking referencing it.
C6_OrphanUnavailableSlot ==
    \A p \in Workers :
        w[p].pc = "interrupted"
        => /\ slots[w[p].slot_id].available = FALSE
           /\ NumBookings(w[p].slot_id) = 0

\* C6, amended: a book_slot POST interrupted between its two writes leaves
\* its Booking referencing the Slot, whose available is still true unless
\* another request has booked the Slot too; the Slot is never bookingless.
C6_BookedStillAvailable ==
    \A p \in Workers :
        w[p].pc = "interrupted"
        => /\ NumBookings(w[p].slot_id) >= 1
           /\ slots[w[p].slot_id].available = TRUE
              \/ NumBookings(w[p].slot_id) >= 2

\* an interrupted request: one Booking, and the Slot still available
C6_Witness ==
    \E p \in Workers :
        /\ w[p].pc = "interrupted"
        /\ NumBookings(w[p].slot_id) = 1
        /\ slots[w[p].slot_id].available = TRUE

\* C7: after GET /, every (date, time label) cell of the current month is a
\* disabled control if a Slot for it is unavailable, a link to the Slot's
\* booking route if a Slot for it is available, and empty if there is none.
C7_CalendarCells ==
    req.route = "index"
    => /\ resp.kind = "render"
       /\ \A d \in 1..DaysInMonth(req.year, req.month), n \in 1..Len(TimeLabels) :
              LET day == [year |-> req.year, month |-> req.month, day |-> d]
                  ids == {i \in 1..Len(slots) :
                             slots[i].date = day /\ slots[i].time = TimeLabels[n]}
                  open == {i \in ids : slots[i].available = TRUE}
                  cell == resp.cells[<<day, TimeLabels[n]>>]
              IN /\ ids \ open # {} => cell.tag = "button_disabled"
                 /\ open # {} => cell.tag = "a" /\ cell.slot_id \in open
                 /\ ids = {} => cell.tag = "none"

LoginPost(r) == r.route = "login" /\ r.method = "POST"
HasFlag(ses, s) == "is_owner" \in ses[s]

\* C8, as claimed: the correct password sets the flag, which then admits
\* every admin panel request of the session; any other password leaves the
\* flag unset, shows the login form and leaves the panel inaccessible.
C8_WrongPasswordLocksOut ==
    [][/\ (LoginPost(req') /\ req'.password = <<OWNER_PASSWORD>>)
          => HasFlag(session', req'.session)
       /\ (LoginPost(req') /\ req'.password # <<OWNER_PASSWORD>>)
          => /\ ~HasFlag(session', req'.session)
             /\ resp' = Render("login.html")
       /\ \A s \in Sessions : HasFlag(session, s) => HasFlag(session', s)
       /\ req'.route = "admin_panel"
          => (resp' = Redirect("/login/") <=> ~HasFlag(session, req'.session))
      ]_vars

\* C8, amended: the correct password sets the flag, which then admits every
\* admin panel request of the session; any other password leaves the flag as
\* it was and shows the login form, so the panel stays inaccessible only in
\* a session that has not logged in before.
C8_LoginGate ==
    [][/\ (LoginPost(req') /\ req'.password = <<OWNER_PASSWORD>>)
          => /\ HasFlag(session', req'.session)
             /\ resp' = Redirect("/admin_panel/")
       /\ (LoginPost(req') /\ req'.password # <<OWNER_PASSWORD>>)
          => /\ session' = session
             /\ resp' = Render("login.html")
       /\ \A s \in Sessions : HasFlag(session, s) => HasFlag(session', s)
       /\ req'.route = "admin_panel"
          => (resp' = Redirect("/login/") <=> ~HasFlag(session, req'.session))
      ]_vars

\* a wrong password posted in a session that is logged in, the other not
C8_Witness ==
    /\ LoginPost(req) /\ req.password = <<"admin">>
    /\ resp = Render("login.html")
    /\ HasFlag(session, req.session)
    /\ \E s \in Sessions : ~HasFlag(session, s)

\* C9: an admin panel request in a session without the owner flag redirects
\* to /login/ and changes no Slot, Booking or session; a Slot is created only
\* by an admin panel POST in a session that has the flag.
C9_PanelGate ==
    [][/\ (req'.route = "admin_panel" /\ ~HasFlag(session, req'.session))
          => /\ resp' = Redirect("/login/")
             /\ slots' = slots /\ bookings' = bookings /\ session' = session
       /\ Len(slots') # Len(slots)
          => /\ Len(slots') = Len(slots) + 1
             /\ req'.route = "admin_panel" /\ req'.method = "POST"
             /\ HasFlag(session, req'.session)]_vars

\* a POST to the panel from a session without the flag, turned away, while
\* the owner's session has created a Slot
C9_Witness ==
    /\ req.route = "admin_panel" /\ req.method = "POST"
    /\ ~HasFlag(session, req.session)
    /\ resp = Redirect("/login/")
    /\ Len(slots) = 1

\* C10: with every request handled to completion, a Slot is unavailable
\* exactly if some Booking references it, and every Booking's Slot exists.
C10_UnavailableIffBooked ==
    /\ \A i \in 1..Len(slots) :
           slots[i].available = FALSE <=> NumBookings(i) >= 1
    /\ \A k \in 1..Len(bookings) : SlotExists(bookings[k].slot)

\* one booked Slot beside one that is still open
C10_Witness ==
    /\ Len(slots) = 2 /\ Len(bookings) = 1
    /\ slots[bookings[1].slot].available = FALSE
    /\ \E i \in 1..Len(slots) : slots[i].available = TRUE
====
